---- MODULE Spec2Model ----
(***************************************************************************)
(* Model of agent_final_course:                                            *)
(*   tools/utils.py    is_text_file, execute_python_file, download_file    *)
(*   tools/web.py      optimized_web_search                                *)
(*   tools/youtube.py  load_youtube                                        *)
(*   agent.py          BasicAgent.__call__                                 *)
(*   app.py            run_and_submit_all                                  *)
(* Python strings are sequences of one-character strings (of code points   *)
(* in the agent); bytes are sequences of integers 0..255.  Each component  *)
(* has its own variables and its own specification (SpecExec, SpecWeb,     *)
(* SpecYoutube, SpecSniff, SpecAgent, SpecApp); SpecTools is the union of  *)
(* the four tools and Spec the union of all.  Library calls                *)
(* (subprocess.run, backoff.on_exception, str, bytes and file methods) are *)
(* modelled by what the library does.                                      *)
(***************************************************************************)
EXTENDS Integers, Sequences, FiniteSets, TLC

VARIABLES
  tool,          \* what this run calls: "exec", "web", "youtube", "sniff",
                 \* "agent", "app"
  \* ---- execute_python_file ----
  ex_fs,         \* the paths that exist in the file system
  ex_path,       \* argument file_path
  ex_pc,         \* "start", "running" (inside subprocess.run), "done"
  ex_child,      \* the child process: "none", "running", "exited" (not yet
                 \* waited for), "reaped" (ended by itself), "killed" (and reaped)
  ex_desc,       \* the child's descendants: index -> "none", "piped", "detached"
  ex_spawned,    \* number of child processes the call has spawned
  ex_out,        \* the CompletedProcess: [stdout, stderr, returncode], or NoRun
  ex_ret,        \* which return statement was taken
  ex_result,     \* the returned string
  ex_raised,     \* TRUE when an exception reached the caller
  \* ---- optimized_web_search ----
  web_words,     \* argument important_words
  web_k,         \* argument batch_size
  web_pc,        \* "start", "done"
  web_raw,       \* search_results, as the search tool returned it
  web_content,   \* all_content
  web_batches,   \* batches
  web_filtered,  \* filtered_batches
  web_ret,       \* which return statement was taken
  web_result,    \* the returned string
  web_raised,    \* TRUE when an exception reached the caller
  \* ---- load_youtube ----
  yt_arg,        \* argument phrase
  yt_phrase,     \* local phrase: the argument, then its normalised form (line 38)
  yt_pc,         \* "start", "loop", "calling", "sleeping", "done"
  yt_now,        \* seconds since the retry loop started (0 once it has returned)
  yt_tries,      \* backoff's tries
  yt_elapsed,    \* backoff's elapsed, read as each attempt starts (0 likewise)
  yt_calls,      \* number of calls of _loader so far
  yt_active,     \* number of calls of _loader in progress
  yt_succ,       \* number of calls of _loader that returned
  yt_lastExc,    \* the exception of the latest failed attempt, or NoExc
  yt_doc,        \* doc[0].page_content of the successful attempt
  yt_content,    \* content
  yt_result,     \* the returned string
  yt_raised,     \* the exception that reached the caller, or NoExc
  \* ---- is_text_file ----
  sn_file,       \* the file at file_path: [status, pad, tail], that is, when it
                 \* can be read, pad bytes "A" followed by the bytes of tail
  sn_pc,         \* "start", "done"
  sn_result,     \* the returned bool ("none" before the return)
  sn_raised,     \* TRUE when an exception reached the caller
  \* ---- BasicAgent.__call__ ----
  ag_question,   \* argument question
  ag_path,       \* argument file_path: [given, s], given FALSE for None
  ag_file,       \* the file at file_path: [status, pad, tail] as for sn_file
  ag_pc,         \* "start", "run" (the prompt is built), "done"
  ag_prompt,     \* local prompt
  ag_caught,     \* TRUE when the except clause of line 58 was entered
  ag_runs,       \* number of calls of the reasoning loop
  ag_given,      \* the prompt the reasoning loop was called with
  ag_raised,     \* the step whose exception reached the caller, or "none"
  \* ---- run_and_submit_all ----
  app_pc,        \* "fetch", "loop" (lines 58-72, and the submission), "done"
  app_questions, \* questions, as fetched: [task_id, file_name (given or not)]
  app_i,         \* number of questions the loop has gone through
  app_calls,     \* per question gone through: the agent call "returned",
                 \* "raised", or was "not_called" (the download raised)
  app_results,   \* results
  app_payload,   \* answers_payload
  app_posts,     \* number of POST requests sent to /submit
  app_status     \* which status the function returns with, or "none"

exVars == <<ex_fs, ex_path, ex_pc, ex_child, ex_desc, ex_spawned, ex_out,
            ex_ret, ex_result, ex_raised>>

webVars == <<web_words, web_k, web_pc, web_raw, web_content, web_batches,
             web_filtered, web_ret, web_result, web_raised>>

ytVars == <<yt_arg, yt_phrase, yt_pc, yt_now, yt_tries, yt_elapsed, yt_calls, yt_active,
            yt_succ, yt_lastExc, yt_doc, yt_content, yt_result, yt_raised>>

snVars == <<sn_file, sn_pc, sn_result, sn_raised>>

agVars == <<ag_question, ag_path, ag_file, ag_pc, ag_prompt, ag_caught, ag_runs,
            ag_given, ag_raised>>

appVars == <<app_pc, app_questions, app_i, app_calls, app_results, app_payload,
             app_posts, app_status>>

vars == <<tool, exVars, webVars, ytVars, snVars, agVars, appVars>>

(***************************************************************************)
(* Bounds of the model.                                                    *)
(***************************************************************************)
MaxOut == 3      \* longest enumerated stdout
MaxErr == 1      \* longest enumerated stderr
MaxDesc == 1     \* descendants the script may start
MaxContent == 4  \* longest enumerated flat search result
MaxBatch == 2    \* largest enumerated batch_size
MaxWords == 2    \* longest enumerated important_words
MaxResults == 2  \* longest enumerated list of search results
MaxTranscript == 3  \* longest enumerated transcript
MaxPhrase == 2   \* longest enumerated phrase
MaxTail == 3        \* longest enumerated run of bytes after the padding
MaxAttach == 2      \* the same, for the agent's attachment
MaxQuestions == 3   \* longest enumerated list of questions

(***************************************************************************)
(* Python str operations.                                                  *)
(***************************************************************************)
\* all strings over alphabet A of length at most n
StringsUpTo(A, n) == UNION {[1..k -> A] : k \in 0..n}

\* str.isspace() for one character
IsSpace(c) == c \in {" ", "\n", "\t"}

RECURSIVE LStrip(_)
LStrip(s) == IF s # <<>> /\ IsSpace(Head(s)) THEN LStrip(Tail(s)) ELSE s

RECURSIVE RStrip(_)
RStrip(s) ==
  IF s # <<>> /\ IsSpace(s[Len(s)]) THEN RStrip(SubSeq(s, 1, Len(s) - 1)) ELSE s

\* str.strip()
Strip(s) == RStrip(LStrip(s))

\* the leading run of non-whitespace characters of s
RECURSIVE TakeWord(_)
TakeWord(s) ==
  IF s = <<>> \/ IsSpace(Head(s)) THEN <<>> ELSE <<Head(s)>> \o TakeWord(Tail(s))

\* str.split(): the maximal runs of non-whitespace characters, in order
RECURSIVE Split(_)
Split(s) ==
  LET t == LStrip(s)
      w == TakeWord(t)
  IN IF t = <<>> THEN <<>>
     ELSE <<w>> \o Split(SubSeq(t, Len(w) + 1, Len(t)))

\* str.endswith(suffix)
EndsWith(s, suffix) ==
  /\ Len(s) >= Len(suffix)
  /\ SubSeq(s, Len(s) - Len(suffix) + 1, Len(s)) = suffix

\* str.startswith(prefix)
StartsWith(s, prefix) ==
  /\ Len(s) >= Len(prefix)
  /\ SubSeq(s, 1, Len(prefix)) = prefix

Digits == <<"0", "1", "2", "3", "4", "5", "6", "7", "8", "9">>

IsDigit(c) == \E d \in 1..10 : Digits[d] = c

DigitVal(c) == (CHOOSE d \in 1..10 : Digits[d] = c) - 1

\* int(): digits, single underscores allowed between digits only
DigitsOk(s) ==
  /\ s # <<>>
  /\ \A i \in 1..Len(s) :
       \/ IsDigit(s[i])
       \/ /\ s[i] = "_"
          /\ i > 1 /\ i < Len(s)
          /\ IsDigit(s[i - 1]) /\ IsDigit(s[i + 1])

RECURSIVE DigitsValue(_, _)
DigitsValue(s, acc) ==
  IF s = <<>> THEN acc
  ELSE IF Head(s) = "_" THEN DigitsValue(Tail(s), acc)
  ELSE DigitsValue(Tail(s), 10 * acc + DigitVal(Head(s)))

\* int(s) for a str: [ok |-> FALSE] stands for ValueError
ParseInt(s) ==
  LET t == Strip(s)
      signed == t # <<>> /\ Head(t) \in {"+", "-"}
      body == IF signed THEN Tail(t) ELSE t
  IN IF DigitsOk(body)
       THEN [ok |-> TRUE,
             val |-> IF signed /\ Head(t) = "-" THEN 0 - DigitsValue(body, 0)
                     ELSE DigitsValue(body, 0)]
       ELSE [ok |-> FALSE, val |-> 0]

RECURSIVE NatToStr(_)
NatToStr(n) ==
  IF n < 10 THEN <<Digits[n + 1]>> ELSE NatToStr(n \div 10) \o <<Digits[(n % 10) + 1]>>

\* str(n) for an int
IntToStr(n) == IF n < 0 THEN <<"-">> \o NatToStr(0 - n) ELSE NatToStr(n)

(***************************************************************************)
(* execute_python_file                                                     *)
(***************************************************************************)
PyExt == <<".", "p", "y">>
ErrorPrefix == <<"E", "r", "r", "o", "r", ":", " ">>
FileNotFoundText == <<"F", "i", "l", "e", " ", "n", "o", "t", " ", "f", "o", "u", "n", "d", ":", " ">>
NotPythonText == <<"F", "i", "l", "e", " ", "i", "s", " ", "n", "o", "t", " ", "a", " ", "P", "y", "t", "h", "o", "n", " ", "f", "i", "l", "e", ":", " ">>
WarningsLabel == <<"\n", "W", "a", "r", "n", "i", "n", "g", "s", "/", "I", "n", "f", "o", ":", " ">>
NoOutputText == <<"S", "c", "r", "i", "p", "t", " ", "e", "x", "e", "c", "u", "t", "e", "d", " ", "s", "u", "c", "c", "e", "s", "s", "f", "u", "l", "l", "y", " ", "w", "i", "t", "h", " ", "n", "o", " ", "o", "u", "t", "p", "u", "t">>
TimeoutText == <<"E", "r", "r", "o", "r", ":", " ", "E", "x", "e", "c", "u", "t", "i", "o", "n", " ", "t", "i", "m", "e", "d", " ", "o", "u", "t", " ", "a", "f", "t", "e", "r", " ", "6", "0", " ", "s", "e", "c", "o", "n", "d", "s">>
SubprocessErrorText == <<"S", "u", "b", "p", "r", "o", "c", "e", "s", "s", " ", "e", "r", "r", "o", "r", ":", " ">>
UnexpectedErrorText == <<"U", "n", "e", "x", "p", "e", "c", "t", "e", "d", " ", "e", "r", "r", "o", "r", ":", " ">>

\* str(e) of an exception of class e
ExcStr(e) == <<"<", e, ">">>

\* the paths the call is tried on
ExPaths == { <<"a", ".", "p", "y">>, <<"a", ".", "p", "y", "c">>, <<"p", "y">> }

\* characters of the enumerated outputs, and outputs tried besides them
OutChars == {" ", "4", "0", "-", "_", "d"}
ErrChars == {" ", "w"}
SampleOut == <<"d", "o", "n", "e", " ", "4", "2", "\n">>
ExtraOuts == { SampleOut,
               <<"x", "\n", "+", "7", "\t", "9">>,
               <<"1", "_", "0", "0", "7", " ", "5">>,
               <<"4", ".", "5", " ", "-", "0", "0">> }
ExStdouts == StringsUpTo(OutChars, MaxOut) \cup ExtraOuts
ExStderrs == StringsUpTo(ErrChars, MaxErr) \cup { <<"w", "\n">> }
ExReturnCodes == {0, 1}

NoRun == [stdout |-> <<>>, stderr |-> <<>>, returncode |-> 0 - 1000]

\* lines 136-141: the two checks made before anything is run
PrecheckExtFirst(path, files) ==
  IF ~EndsWith(path, PyExt) THEN "not_python"
  ELSE IF path \notin files THEN "not_found"
  ELSE "ok"

Precheck(path, files) ==
  IF path \notin files THEN "not_found"
  ELSE IF ~EndsWith(path, PyExt) THEN "not_python"
  ELSE "ok"

\* lines 159-163: the first token int() accepts, as str(int(token))
RECURSIVE FirstIntToken(_)
FirstIntToken(tokens) ==
  IF tokens = <<>> THEN [found |-> FALSE, text |-> <<>>]
  ELSE LET p == ParseInt(Strip(Head(tokens)))
       IN IF p.ok THEN [found |-> TRUE, text |-> IntToStr(p.val)]
          ELSE FirstIntToken(Tail(tokens))

\* lines 153-164 with the first two branches in the other order
ReduceOutputWarningsFirst(stdout, stderr, returncode) ==
  IF stderr # <<>>
    THEN [ret |-> "warnings",
          result |-> Strip(stdout) \o WarningsLabel \o Strip(stderr)]
  ELSE LET hit == FirstIntToken(Split(Strip(stdout)))
       IN IF hit.found THEN [ret |-> "int_token", result |-> hit.text]
          ELSE IF Strip(stdout) # <<>>
            THEN [ret |-> "stdout", result |-> Strip(stdout)]
          ELSE [ret |-> "no_output", result |-> NoOutputText]

\* lines 153-164: the reduction of a completed run to the returned string
ReduceOutput(stdout, stderr, returncode) ==
  IF stderr # <<>> /\ returncode # 0
    THEN [ret |-> "error_stderr", result |-> ErrorPrefix \o Strip(stderr)]
  ELSE IF stderr # <<>>
    THEN [ret |-> "warnings",
          result |-> Strip(stdout) \o WarningsLabel \o Strip(stderr)]
  ELSE LET hit == FirstIntToken(Split(Strip(stdout)))
       IN IF hit.found THEN [ret |-> "int_token", result |-> hit.text]
          ELSE IF Strip(stdout) # <<>>
            THEN [ret |-> "stdout", result |-> Strip(stdout)]
          ELSE [ret |-> "no_output", result |-> NoOutputText]

SnIdle ==
  /\ sn_file = [status |-> "missing", pad |-> 0, tail |-> <<>>]
  /\ sn_pc = "idle"
  /\ sn_result = "none"
  /\ sn_raised = FALSE

AppIdle ==
  /\ app_pc = "idle"
  /\ app_questions = <<>>
  /\ app_i = 0
  /\ app_calls = <<>>
  /\ app_results = <<>>
  /\ app_payload = <<>>
  /\ app_posts = 0
  /\ app_status = "none"

AgIdle ==
  /\ ag_question = <<>>
  /\ ag_path = [given |-> FALSE, s |-> <<>>]
  /\ ag_file = [status |-> "missing", pad |-> 0, tail |-> <<>>]
  /\ ag_pc = "idle"
  /\ ag_prompt = <<>>
  /\ ag_caught = FALSE
  /\ ag_runs = 0
  /\ ag_given = <<>>
  /\ ag_raised = "none"

NoExc == [kind |-> "none", attempt |-> 0]

YtIdle ==
  /\ yt_arg = <<>>
  /\ yt_phrase = <<>>
  /\ yt_pc = "idle"
  /\ yt_now = 0
  /\ yt_tries = 0
  /\ yt_elapsed = 0
  /\ yt_calls = 0
  /\ yt_active = 0
  /\ yt_succ = 0
  /\ yt_lastExc = NoExc
  /\ yt_doc = <<>>
  /\ yt_content = <<>>
  /\ yt_result = <<>>
  /\ yt_raised = NoExc

WebIdle ==
  /\ web_words = <<>>
  /\ web_k = 0
  /\ web_pc = "idle"
  /\ web_raw = [type |-> "none"]
  /\ web_content = <<>>
  /\ web_batches = <<>>
  /\ web_filtered = <<>>
  /\ web_ret = "none"
  /\ web_result = <<>>
  /\ web_raised = FALSE

ExIdle ==
  /\ ex_fs = {}
  /\ ex_path = <<>>
  /\ ex_pc = "idle"
  /\ ex_child = "none"
  /\ ex_desc = [i \in 1..MaxDesc |-> "none"]
  /\ ex_spawned = 0
  /\ ex_out = NoRun
  /\ ex_ret = "none"
  /\ ex_result = <<>>
  /\ ex_raised = FALSE

InitExec ==
  /\ tool = "exec"
  /\ ex_fs \in SUBSET ExPaths
  /\ ex_path \in ExPaths
  /\ ex_pc = "start"
  /\ ex_child = "none"
  /\ ex_desc = [i \in 1..MaxDesc |-> "none"]
  /\ ex_spawned = 0
  /\ ex_out = NoRun
  /\ ex_ret = "none"
  /\ ex_result = <<>>
  /\ ex_raised = FALSE
  /\ WebIdle
  /\ YtIdle
  /\ SnIdle
  /\ AgIdle
  /\ AppIdle

ExReturn(ret, result) ==
  /\ ex_pc' = "done"
  /\ ex_ret' = ret
  /\ ex_result' = result

\* lines 136-141: a failed check returns its error string
ExReject ==
  /\ tool = "exec" /\ ex_pc = "start"
  /\ Precheck(ex_path, ex_fs) # "ok"
  /\ IF Precheck(ex_path, ex_fs) = "not_found"
       THEN ExReturn("not_found", ErrorPrefix \o FileNotFoundText \o ex_path)
       ELSE ExReturn("not_python", ErrorPrefix \o NotPythonText \o ex_path)
  /\ UNCHANGED <<appVars, agVars, snVars, ytVars, webVars, tool, ex_fs, ex_path, ex_child, ex_desc, ex_spawned, ex_out, ex_raised>>

\* lines 145-150: subprocess.run starts the child and waits for it
ExLaunch ==
  /\ tool = "exec" /\ ex_pc = "start"
  /\ Precheck(ex_path, ex_fs) = "ok"
  /\ ex_pc' = "running"
  /\ ex_child' = "running"
  /\ ex_spawned' = ex_spawned + 1
  /\ UNCHANGED <<appVars, agVars, snVars, ytVars, webVars, tool, ex_fs, ex_path, ex_desc, ex_out, ex_ret, ex_result, ex_raised>>

\* lines 145-150, 169-173: subprocess.run raises before a child exists
ExLaunchFail ==
  /\ tool = "exec" /\ ex_pc = "start"
  /\ Precheck(ex_path, ex_fs) = "ok"
  /\ \E e \in {"SubprocessError", "OSError"} :
       IF e = "SubprocessError"
         THEN ExReturn("subprocess_error", ErrorPrefix \o SubprocessErrorText \o ExcStr(e))
         ELSE ExReturn("unexpected_error", ErrorPrefix \o UnexpectedErrorText \o ExcStr(e))
  /\ UNCHANGED <<appVars, agVars, snVars, ytVars, webVars, tool, ex_fs, ex_path, ex_child, ex_desc, ex_spawned, ex_out, ex_raised>>

\* the script starts a process of its own, which inherits the pipes or not
ChildFork ==
  /\ tool = "exec" /\ ex_child = "running"
  /\ \E i \in 1..MaxDesc, k \in {"piped", "detached"} :
       /\ ex_desc[i] = "none"
       /\ \A j \in 1..(i - 1) : ex_desc[j] # "none"
       /\ ex_desc' = [ex_desc EXCEPT ![i] = k]
  /\ UNCHANGED <<appVars, agVars, snVars, ytVars, webVars, tool, ex_fs, ex_path, ex_pc, ex_child, ex_spawned, ex_out,
                 ex_ret, ex_result, ex_raised>>

\* a descendant ends by itself
DescExit ==
  /\ tool = "exec"
  /\ \E i \in 1..MaxDesc :
       /\ ex_desc[i] # "none"
       /\ ex_desc' = [ex_desc EXCEPT ![i] = "none"]
  /\ UNCHANGED <<appVars, agVars, snVars, ytVars, webVars, tool, ex_fs, ex_path, ex_pc, ex_child, ex_spawned, ex_out,
                 ex_ret, ex_result, ex_raised>>

\* the script ends by itself
ChildExit ==
  /\ tool = "exec" /\ ex_child = "running"
  /\ ex_child' = "exited"
  /\ UNCHANGED <<appVars, agVars, snVars, ytVars, webVars, tool, ex_fs, ex_path, ex_pc, ex_desc, ex_spawned, ex_out,
                 ex_ret, ex_result, ex_raised>>

\* subprocess.run on timeout (line 149): kill() and wait() on the child only
KillOnTimeout(child, desc) ==
  [child |-> IF child = "running" THEN "killed" ELSE "reaped", desc |-> desc]

\* lines 145-164: the child has ended and both pipes are at end of file;
\* subprocess.run returns and the output is reduced
ExComplete ==
  /\ tool = "exec" /\ ex_pc = "running"
  /\ ex_child = "exited"
  /\ \A i \in 1..MaxDesc : ex_desc[i] # "piped"
  /\ \E so \in ExStdouts, se \in ExStderrs, rc \in ExReturnCodes :
       /\ ex_out' = [stdout |-> so, stderr |-> se, returncode |-> rc]
       /\ ExReturn(ReduceOutput(so, se, rc).ret, ReduceOutput(so, se, rc).result)
  /\ ex_child' = "reaped"
  /\ UNCHANGED <<appVars, agVars, snVars, ytVars, webVars, tool, ex_fs, ex_path, ex_desc, ex_spawned, ex_raised>>

\* lines 145-150, 172-173: the captured bytes do not decode as text
ExDecodeFail ==
  /\ tool = "exec" /\ ex_pc = "running"
  /\ ex_child = "exited"
  /\ \A i \in 1..MaxDesc : ex_desc[i] # "piped"
  /\ ExReturn("unexpected_error",
              ErrorPrefix \o UnexpectedErrorText \o ExcStr("UnicodeDecodeError"))
  /\ ex_child' = "reaped"
  /\ UNCHANGED <<appVars, agVars, snVars, ytVars, webVars, tool, ex_fs, ex_path, ex_desc, ex_spawned, ex_out, ex_raised>>

\* lines 149, 166-167: the timeout expires while subprocess.run still waits
ExTimeout ==
  /\ tool = "exec" /\ ex_pc = "running"
  /\ ex_child' = KillOnTimeout(ex_child, ex_desc).child
  /\ ex_desc' = KillOnTimeout(ex_child, ex_desc).desc
  /\ ExReturn("timeout", TimeoutText)
  /\ UNCHANGED <<appVars, agVars, snVars, ytVars, webVars, tool, ex_fs, ex_path, ex_spawned, ex_out, ex_raised>>

NextExec ==
  \/ ExReject
  \/ ExLaunch
  \/ ExLaunchFail
  \/ ChildFork
  \/ DescExit
  \/ ChildExit
  \/ ExComplete
  \/ ExDecodeFail
  \/ ExTimeout

SpecExec == InitExec /\ [][NextExec]_vars

(***************************************************************************)
(* Claims about execute_python_file (checked under SpecExec).              *)
(***************************************************************************)
Min(S) == CHOOSE x \in S : \A y \in S : x <= y

\* a decimal numeral in canonical form: no sign but "-", no leading zero, no "-0"
CanonicalDecimal(s) ==
  LET body == IF s # <<>> /\ Head(s) = "-" THEN Tail(s) ELSE s
  IN /\ body # <<>>
     /\ \A i \in 1..Len(body) : IsDigit(body[i])
     /\ (Len(body) > 1 => body[1] # "0")
     /\ (s # body => body # <<"0">>)

\* the third rule of the result reduction, stated over the tokens by position
C1_NumericFirst(stdout) ==
  LET toks == Split(stdout)
      ints == {i \in 1..Len(toks) : ParseInt(toks[i]).ok}
  IN IF ints # {} THEN IntToStr(ParseInt(toks[Min(ints)]).val)
     ELSE IF Strip(stdout) # <<>> THEN Strip(stdout)
     ELSE NoOutputText

\* C1: after a completed run the returned string is "Error: " + trimmed stderr
\* when the exit code is non-zero and stderr is non-empty; else trimmed stdout
\* plus the labelled trimmed stderr when stderr is non-empty; else the first
\* stdout token that parses as an integer, in canonical decimal form, else the
\* trimmed stdout, else (nothing left after trimming) the no-output sentinel.
\* stdout "done 42\n" with exit code 0 and empty stderr yields "42".
C1_ResultPriority ==
  (ex_pc = "done" /\ ex_out # NoRun) =>
    /\ ex_result =
         IF ex_out.returncode # 0 /\ ex_out.stderr # <<>>
           THEN ErrorPrefix \o Strip(ex_out.stderr)
         ELSE IF ex_out.stderr # <<>>
           THEN Strip(ex_out.stdout) \o WarningsLabel \o Strip(ex_out.stderr)
         ELSE C1_NumericFirst(ex_out.stdout)
    /\ (ex_ret = "int_token" => CanonicalDecimal(ex_result))
    /\ (ex_out = [stdout |-> SampleOut, stderr |-> <<>>, returncode |-> 0]
          => ex_result = <<"4", "2">>)

\* the run of the script printing "done 42\n" has returned "42"
C1_Witness ==
  /\ ex_pc = "done"
  /\ ex_out = [stdout |-> SampleOut, stderr |-> <<>>, returncode |-> 0]
  /\ ex_result = <<"4", "2">>

\* C2: a path that does not exist, or exists without ending in .py, is
\* answered by a string beginning with "Error:", no exception reaches the
\* caller, no child process is spawned, and a path failing both checks gets
\* the file-not-found answer (existence is checked first).
C2_RejectedWithoutRun ==
  (ex_path \notin ex_fs \/ ~EndsWith(ex_path, PyExt)) =>
    /\ ~ex_raised
    /\ ex_spawned = 0 /\ ex_child = "none" /\ ex_pc # "running"
    /\ (ex_pc = "start" => ENABLED ExReject)
    /\ (ex_pc = "done" =>
          /\ StartsWith(ex_result, <<"E", "r", "r", "o", "r", ":">>)
          /\ (ex_path \notin ex_fs =>
                ex_result = ErrorPrefix \o FileNotFoundText \o ex_path)
          /\ (ex_path \in ex_fs =>
                ex_result = ErrorPrefix \o NotPythonText \o ex_path))

\* a call on a path that neither exists nor ends in .py has returned
C2_Witness ==
  /\ ex_pc = "done"
  /\ ex_path \notin ex_fs /\ ~EndsWith(ex_path, PyExt)
  /\ ex_ret = "not_found"

\* C3: when the script is still running as the timeout expires, the call
\* returns the timeout sentinel and, when it returns, neither the child nor
\* any descendant of it is running.
C3_NothingLeftRunning ==
  (ex_pc = "done" /\ ex_ret = "timeout" /\ ex_child = "killed") =>
    /\ ex_result = TimeoutText
    /\ \A i \in 1..MaxDesc : ex_desc[i] = "none"

\* the part of C3 that the code does ensure: the sentinel, and the child itself
C3_ChildReaped ==
  (ex_pc = "done" /\ ex_ret = "timeout") =>
    /\ ex_result = TimeoutText
    /\ ex_child \in {"killed", "reaped"}

(***************************************************************************)
(* optimized_web_search                                                    *)
(***************************************************************************)
NoResultsText == <<"N", "o", " ", "s", "e", "a", "r", "c", "h", " ", "r", "e", "s", "u", "l", "t", "s", " ", "f", "o", "u", "n", "d", ".">>
NoKeywordsHead == <<"N", "o", " ", "c", "o", "n", "t", "e", "n", "t", " ", "c", "o", "n", "t", "a", "i", "n", "i", "n", "g", " ", "t", "h", "e", " ", "i", "m", "p", "o", "r", "t", "a", "n", "t", " ", "w", "o", "r", "d", "s", " ">>
NoKeywordsTail == <<" ", "w", "a", "s", " ", "f", "o", "u", "n", "d", " ", "i", "n", " ", "t", "h", "e", " ", "s", "e", "a", "r", "c", "h", " ", "r", "e", "s", "u", "l", "t", "s", ".">>
WebErrorHead == <<"E", "r", "r", "o", "r", " ", "d", "u", "r", "i", "n", "g", " ", "o", "p", "t", "i", "m", "i", "z", "e", "d", " ", "w", "e", "b", " ", "s", "e", "a", "r", "c", "h", ":", " ">>
BlankLine == <<"\n", "\n">>

\* the letters that differ in case only: {upper, lower}
CasePairs == { <<"A", "a">>, <<"B", "b">> }

\* str.lower()
LowerChar(c) == IF \E p \in CasePairs : p[1] = c
                  THEN (CHOOSE p \in CasePairs : p[1] = c)[2]
                  ELSE c

Lower(s) == [i \in 1..Len(s) |-> LowerChar(s[i])]

\* sub in s
Contains(s, sub) ==
  \E off \in 0..(Len(s) - Len(sub)) : SubSeq(s, off + 1, off + Len(sub)) = sub

\* sep.join(parts)
RECURSIVE Join(_, _)
Join(sep, parts) ==
  IF parts = <<>> THEN <<>>
  ELSE IF Len(parts) = 1 THEN parts[1]
  ELSE parts[1] \o sep \o Join(sep, Tail(parts))

\* s[a:b] for 0 <= a <= b
Slice(s, a, b) == SubSeq(s, a + 1, IF b < Len(s) THEN b ELSE Len(s))

\* a keyword that is not a str: the int 1970
WebNonStr == <<"1970">>

\* repr() of a str without quotes or escapes in it, of an int, and of a list
\* of them
ReprStr(w) == IF w = WebNonStr THEN <<"1", "9", "7", "0">> ELSE <<"'">> \o w \o <<"'">>
ReprList(ws) == <<"[">> \o Join(<<",", " ">>, [i \in 1..Len(ws) |-> ReprStr(ws[i])]) \o <<"]">>

\* the search results tried: None, "", [], flat strings, lists of dicts, a dict
WebChars == {"a", "B", " "}
WebKeywords == { <<>>, <<"A">>, <<"b">>, <<"a", "b">> }
WebItems == { [content |-> <<"a">>], [content |-> <<"B", "b">>],
              [content |-> <<>>], [title |-> <<"a">>] }
WebRaws ==
  {[type |-> "none"], [type |-> "dict"]}
    \cup {[type |-> "str", s |-> c] : c \in StringsUpTo(WebChars, MaxContent)}
    \cup {[type |-> "list", items |-> l] : l \in StringsUpTo(WebItems, MaxResults)}
WebBatchSizes == (0 - 1)..MaxBatch
WebMistypedWords == { <<WebNonStr>>, << <<"A">>, WebNonStr >> }

\* line 21 testing for None only
IsNone(raw) == raw.type = "none"

\* line 21: not search_results or len(search_results) == 0
IsEmptyResult(raw) ==
  \/ raw.type = "none"
  \/ raw.type = "str" /\ raw.s = <<>>
  \/ raw.type = "list" /\ raw.items = <<>>

\* lines 25-30: the content fields joined by single spaces, or the string itself
Flatten(raw) ==
  IF raw.type = "list"
    THEN Join(<<" ">>, [i \in 1..Len(raw.items) |->
                          IF "content" \in DOMAIN raw.items[i]
                            THEN raw.items[i].content ELSE <<>>])
    ELSE raw.s

\* lines 33-35 with a chunk one character short
RECURSIVE BatchesShort(_, _, _)
BatchesShort(c, i, k) ==
  IF k <= 0 \/ i >= Len(c) THEN <<>>
  ELSE <<Slice(c, i, i + k - 1)>> \o BatchesShort(c, i + k, k)

\* lines 33-35: for i in range(0, len(all_content), batch_size), from index i on
\* (range with a negative step from 0 up to a length is empty)
RECURSIVE Batches(_, _, _)
Batches(c, i, k) ==
  IF k <= 0 \/ i >= Len(c) THEN <<>>
  ELSE <<Slice(c, i, i + k)>> \o Batches(c, i + k, k)

\* line 40 without the lower() calls
KeepBatchCaseSensitive(batch, words) ==
  \E j \in 1..Len(words) : Contains(batch, words[j])

\* line 40: any(word.lower() in batch.lower() for word in important_words)
KeepBatch(batch, words) ==
  \E j \in 1..Len(words) : Contains(Lower(batch), Lower(words[j]))

\* lines 38-41
RECURSIVE FilterBatches(_, _)
FilterBatches(batches, words) ==
  IF batches = <<>> THEN <<>>
  ELSE (IF KeepBatch(Head(batches), words) THEN <<Head(batches)>> ELSE <<>>)
         \o FilterBatches(Tail(batches), words)

\* line 40: word.lower() is reached for a keyword that is not a str, which
\* any() does in a batch that none of the keywords before it occurs in
FilterRaises(batches, words) ==
  \E b \in 1..Len(batches), j \in 1..Len(words) :
    /\ words[j] = WebNonStr
    /\ \A i \in 1..(j - 1) : ~Contains(Lower(batches[b]), Lower(words[i]))

InitWeb ==
  /\ tool = "web"
  /\ web_words \in StringsUpTo(WebKeywords, MaxWords) \cup WebMistypedWords
  /\ web_k \in WebBatchSizes
  /\ web_pc = "start"
  /\ web_raw = [type |-> "none"]
  /\ web_content = <<>>
  /\ web_batches = <<>>
  /\ web_filtered = <<>>
  /\ web_ret = "none"
  /\ web_result = <<>>
  /\ web_raised = FALSE
  /\ ExIdle
  /\ YtIdle
  /\ SnIdle
  /\ AgIdle
  /\ AppIdle

WebReturn(ret, result) ==
  /\ web_pc' = "done"
  /\ web_ret' = ret
  /\ web_result' = result

\* lines 17-19, 50-51: the search tool raises
WebSearchFails ==
  /\ tool = "web" /\ web_pc = "start"
  /\ WebReturn("error", WebErrorHead \o ExcStr("Exception"))
  /\ UNCHANGED <<appVars, agVars, snVars, ytVars, exVars, tool, web_words, web_k, web_raw, web_content,
                 web_batches, web_filtered, web_raised>>

\* lines 19-22: the search tool returns nothing
WebNoResults ==
  /\ tool = "web" /\ web_pc = "start"
  /\ \E raw \in WebRaws :
       /\ IsEmptyResult(raw)
       /\ web_raw' = raw
  /\ WebReturn("no_results", NoResultsText)
  /\ UNCHANGED <<appVars, agVars, snVars, ytVars, exVars, tool, web_words, web_k, web_content, web_batches,
                 web_filtered, web_raised>>

\* lines 19-41 without the except clause: the exception leaves the call
WebProcessingEscapes ==
  /\ tool = "web" /\ web_pc = "start"
  /\ \E raw \in WebRaws :
       /\ ~IsEmptyResult(raw)
       /\ raw.type = "dict" \/ web_k = 0
       /\ web_raw' = raw
  /\ web_pc' = "done"
  /\ web_raised' = TRUE
  /\ UNCHANGED <<appVars, agVars, snVars, ytVars, exVars, tool, web_words, web_k, web_content,
                 web_batches, web_filtered, web_ret, web_result>>

\* lines 19-41, 50-51: flattening, partitioning or filtering raises (a result
\* that is neither a str nor a list, range() with step 0, a keyword that is
\* not a str)
WebProcessingFails ==
  /\ tool = "web" /\ web_pc = "start"
  /\ \E raw \in WebRaws :
       /\ ~IsEmptyResult(raw)
       /\ IF raw.type = "dict" \/ web_k = 0 THEN TRUE
          ELSE FilterRaises(Batches(Flatten(raw), 0, web_k), web_words)
       /\ web_raw' = raw
       /\ web_content' = IF raw.type = "dict" THEN <<>> ELSE Flatten(raw)
       /\ web_batches' = IF raw.type = "dict" \/ web_k = 0 THEN <<>>
                         ELSE Batches(Flatten(raw), 0, web_k)
       /\ WebReturn("error",
                    WebErrorHead \o ExcStr(IF raw.type = "dict" THEN "TypeError"
                                           ELSE IF web_k = 0 THEN "ValueError"
                                           ELSE "AttributeError"))
  /\ UNCHANGED <<appVars, agVars, snVars, ytVars, exVars, tool, web_words, web_k, web_filtered,
                 web_raised>>

\* lines 19-48: the result is flattened, partitioned, filtered and joined
WebReduce ==
  /\ tool = "web" /\ web_pc = "start"
  /\ \E raw \in WebRaws :
       /\ ~IsEmptyResult(raw)
       /\ raw.type # "dict" /\ web_k # 0
       /\ ~FilterRaises(Batches(Flatten(raw), 0, web_k), web_words)
       /\ web_raw' = raw
       /\ web_content' = Flatten(raw)
       /\ web_batches' = Batches(Flatten(raw), 0, web_k)
       /\ web_filtered' = FilterBatches(Batches(Flatten(raw), 0, web_k), web_words)
       /\ LET filtered_content ==
                Join(BlankLine,
                     FilterBatches(Batches(Flatten(raw), 0, web_k), web_words))
          IN IF filtered_content = <<>>
               THEN WebReturn("no_keywords",
                              NoKeywordsHead \o ReprList(web_words) \o NoKeywordsTail)
               ELSE WebReturn("content", filtered_content)
  /\ UNCHANGED <<appVars, agVars, snVars, ytVars, exVars, tool, web_words, web_k, web_raised>>

NextWeb ==
  \/ WebSearchFails
  \/ WebNoResults
  \/ WebProcessingFails
  \/ WebReduce

SpecWeb == InitWeb /\ [][NextWeb]_vars

(***************************************************************************)
(* Claims about optimized_web_search (checked under SpecWeb).              *)
(***************************************************************************)
\* the concatenation of a sequence of strings, last one first
RECURSIVE ConcatAll(_)
ConcatAll(parts) ==
  IF parts = <<>> THEN <<>>
  ELSE ConcatAll(SubSeq(parts, 1, Len(parts) - 1)) \o parts[Len(parts)]

CeilDiv(n, k) == (n + k - 1) \div k

\* the partition step ran to its end
WebPartitioned == web_pc = "done" /\ web_ret \in {"content", "no_keywords"}

\* C4: for every content c and chunk size k > 0 the chunks are contiguous,
\* non-overlapping and exhaustive: chunk i is c[(i-1)k .. ik), their
\* concatenation is c, all but possibly the last have k characters, and there
\* are ceil(len(c)/k) of them.
C4_ChunksTileContent ==
  (WebPartitioned /\ web_k > 0) =>
    LET n == Len(web_batches)
        c == web_content
    IN /\ ConcatAll(web_batches) = c
       /\ n = CeilDiv(Len(c), web_k)
       /\ \A i \in 1..n :
            /\ i < n => Len(web_batches[i]) = web_k
            /\ Len(web_batches[i]) \in 1..web_k
            /\ \A j \in 1..Len(web_batches[i]) :
                 web_batches[i][j] = c[(i - 1) * web_k + j]

\* a content of more than two chunks, the last one shorter
C4_Witness ==
  /\ WebPartitioned /\ web_k = 2
  /\ Len(web_content) = 3
  /\ Len(web_batches) = 2 /\ Len(web_batches[2]) = 1

\* x and y are the same character up to case
SameLetter(x, y) == x = y \/ <<x, y>> \in CasePairs \/ <<y, x>> \in CasePairs

\* keyword w occurs in chunk up to case, at some offset
OccursIgnoringCase(w, chunk) ==
  \E off \in 0..(Len(chunk) - Len(w)) :
    \A t \in 1..Len(w) : SameLetter(chunk[off + t], w[t])

MatchesAnyKeyword(chunk) ==
  \E j \in 1..Len(web_words) : OccursIgnoringCase(web_words[j], chunk)

\* f maps the positions of the retained chunks to their positions in the source
IsOrderEmbedding(f) ==
  /\ \A a, b \in DOMAIN f : a < b => f[a] < f[b]
  /\ \A a \in DOMAIN f : web_filtered[a] = web_batches[f[a]]
  /\ \A i \in 1..Len(web_batches) :
       MatchesAnyKeyword(web_batches[i]) <=> (\E a \in DOMAIN f : f[a] = i)

\* C5: a chunk is in the filtered output iff some keyword occurs in it as a
\* case-insensitive substring; the retained chunks keep their source order and
\* are joined by a blank line.
C5_FilterKeepsMatchingInOrder ==
  WebPartitioned =>
    /\ \E f \in [1..Len(web_filtered) -> 1..Len(web_batches)] : IsOrderEmbedding(f)
    /\ (web_filtered # <<>> =>
          /\ web_ret = "content"
          /\ Len(web_result) = Len(ConcatAll(web_filtered)) + 2 * (Len(web_filtered) - 1)
          /\ web_result = Join(BlankLine, web_filtered))

\* two of three chunks retained, one of them by a keyword in the other case
C5_Witness ==
  /\ WebPartitioned
  /\ Len(web_batches) = 3 /\ Len(web_filtered) = 2
  /\ ~MatchesAnyKeyword(web_batches[2])
  /\ \E i \in {1, 3} : ~KeepBatchCaseSensitive(web_batches[i], web_words)
  /\ web_ret = "content"

\* no exception was raised between the search and the return
WebRanThrough == web_pc = "done" /\ web_ret # "error"

\* the raw result is None, or a string or list of length 0
RawIsEmpty == web_raw.type = "none" \/ web_raw \in {[type |-> "str", s |-> <<>>],
                                                     [type |-> "list", items |-> <<>>]}

\* C6: an empty (or None) raw result gives the no-results sentinel with nothing
\* partitioned or filtered; a non-empty raw result with no chunk retained gives
\* the sentinel naming the keywords; the no-results return is taken only for an
\* empty raw result and the keyword return only when no chunk contains a keyword.
C6_EmptyOutcomes ==
  WebRanThrough =>
    /\ RawIsEmpty =>
         /\ web_ret = "no_results" /\ web_result = NoResultsText
         /\ web_content = <<>> /\ web_batches = <<>> /\ web_filtered = <<>>
    /\ (~RawIsEmpty /\ web_filtered = <<>>) =>
         /\ web_ret = "no_keywords"
         /\ web_result = NoKeywordsHead \o ReprList(web_words) \o NoKeywordsTail
    /\ web_ret = "no_results" => RawIsEmpty
    /\ web_ret = "no_keywords" =>
         \A i \in 1..Len(web_batches) : ~MatchesAnyKeyword(web_batches[i])

\* a non-empty result was partitioned and no chunk held a keyword
C6_Witness ==
  /\ web_pc = "done" /\ web_ret = "no_keywords"
  /\ ~RawIsEmpty
  /\ Len(web_batches) >= 2 /\ web_words # <<>>

(***************************************************************************)
(* load_youtube                                                            *)
(***************************************************************************)
\* @backoff.on_exception(backoff.expo, Exception, max_tries=8, max_time=60)
MaxTries == 8
MaxTime == 60

\* the transcripts, phrases and call durations (seconds) tried
TranscriptChars == {"A", "b"}
PhraseChars == {"a", "B", ".", "?"}
\* docstring, Raises: "after exhausting all retry attempts (max 3 tries)"
DocMaxTries == 3
YtTranscripts == StringsUpTo(TranscriptChars, MaxTranscript)
YtPhrases == StringsUpTo(PhraseChars, MaxPhrase)
LoadTimes == {0, 25}

\* s.replace(ch, "")
RECURSIVE Remove(_, _)
Remove(s, ch) ==
  IF s = <<>> THEN <<>>
  ELSE (IF Head(s) = ch THEN <<>> ELSE <<Head(s)>>) \o Remove(Tail(s), ch)

\* line 38: phrase.replace(".", "").replace("?", "").lower()
NormalizePhrase(p) == Lower(Remove(Remove(p, "."), "?"))

\* the offsets at which sub occurs in s
Occurrences(s, sub) ==
  {off \in 0..(Len(s) - Len(sub)) : SubSeq(s, off + 1, off + Len(sub)) = sub}

\* an index() that finds the last occurrence
LastIndex(s, sub) ==
  CHOOSE off \in Occurrences(s, sub) : \A o \in Occurrences(s, sub) : o <= off

\* line 41: content.index(phrase), the first occurrence
Index(s, sub) ==
  CHOOSE off \in Occurrences(s, sub) : \A o \in Occurrences(s, sub) : off <= o

\* lines 40-42: anchor-forward truncation
SeekAnchor(content, phrase) ==
  IF Contains(content, phrase)
    THEN Slice(content, Index(content, phrase), Len(content))
    ELSE content

\* backoff.expo: 1, 2, 4, ... seconds before the retry that follows attempt n
RECURSIVE Pow2(_)
Pow2(n) == IF n = 0 THEN 1 ELSE 2 * Pow2(n - 1)

ExpoWait(n) == Pow2(n - 1)

\* backoff's _next_wait: full jitter picks within [0, value], and the sleep is
\* cut to what is left of max_time; the two ends of the interval are tried
SleepChoices(tries, elapsed) ==
  LET cap == IF ExpoWait(tries) < MaxTime - elapsed
               THEN ExpoWait(tries) ELSE MaxTime - elapsed
  IN {0, cap}

\* a retry loop that allows one attempt too many
GiveUpLate(tries, elapsed) == tries > MaxTries \/ elapsed >= MaxTime

\* backoff's give-up test: max_tries reached, or max_time used up when the
\* failed attempt started
GiveUp(tries, elapsed) == tries = MaxTries \/ elapsed >= MaxTime

InitYoutube ==
  /\ tool = "youtube"
  /\ yt_arg \in YtPhrases
  /\ yt_phrase = yt_arg
  /\ yt_pc = "start"
  /\ yt_now = 0
  /\ yt_tries = 0
  /\ yt_elapsed = 0
  /\ yt_calls = 0
  /\ yt_active = 0
  /\ yt_succ = 0
  /\ yt_lastExc = NoExc
  /\ yt_doc = <<>>
  /\ yt_content = <<>>
  /\ yt_result = <<>>
  /\ yt_raised = NoExc
  /\ ExIdle
  /\ WebIdle
  /\ SnIdle
  /\ AgIdle
  /\ AppIdle

\* line 38: the phrase is normalised, then _loader is entered through backoff
YtNormalize ==
  /\ tool = "youtube" /\ yt_pc = "start"
  /\ yt_phrase' = NormalizePhrase(yt_phrase)
  /\ yt_pc' = "loop"
  /\ UNCHANGED <<appVars, agVars, snVars, exVars, webVars, tool, yt_arg, yt_now, yt_tries, yt_elapsed, yt_calls,
                 yt_active, yt_succ, yt_lastExc, yt_doc, yt_content, yt_result,
                 yt_raised>>

\* lines 29-32: backoff counts the try, reads the clock and calls _loader
YtAttempt ==
  /\ tool = "youtube" /\ yt_pc = "loop"
  /\ yt_tries' = yt_tries + 1
  /\ yt_elapsed' = yt_now
  /\ yt_calls' = yt_calls + 1
  /\ yt_active' = yt_active + 1
  /\ yt_pc' = "calling"
  /\ UNCHANGED <<appVars, agVars, snVars, exVars, webVars, tool, yt_arg, yt_phrase, yt_now, yt_succ, yt_lastExc,
                 yt_doc, yt_content, yt_result, yt_raised>>

\* lines 31-34, 39-42: the loader returns a document; _loader returns its
\* lowercased text, the retry loop returns with it (its clock readings end
\* there) and the phrase is sought in it
YtLoaded ==
  /\ tool = "youtube" /\ yt_pc = "calling"
  /\ \E t \in YtTranscripts :
       /\ yt_doc' = t
       /\ yt_content' = Lower(t)
       /\ yt_result' = SeekAnchor(Lower(t), yt_phrase)
  /\ yt_active' = yt_active - 1
  /\ yt_succ' = yt_succ + 1
  /\ yt_pc' = "done"
  /\ yt_now' = 0 /\ yt_elapsed' = 0
  /\ UNCHANGED <<appVars, agVars, snVars, exVars, webVars, tool, yt_arg, yt_phrase, yt_tries, yt_calls,
                 yt_lastExc, yt_raised>>

\* lines 29-36: the loader raises, or returns no document; backoff either
\* re-raises to the caller or goes on to sleep
YtFailed ==
  /\ tool = "youtube" /\ yt_pc = "calling"
  /\ \E d \in LoadTimes, k \in {"LoaderError", "Empty document"} :
       /\ yt_now' = yt_now + d
       /\ yt_lastExc' = [kind |-> k, attempt |-> yt_tries]
       /\ IF GiveUp(yt_tries, yt_elapsed)
            THEN /\ yt_raised' = [kind |-> k, attempt |-> yt_tries]
                 /\ yt_pc' = "done"
            ELSE /\ yt_raised' = yt_raised
                 /\ yt_pc' = "sleeping"
  /\ yt_active' = yt_active - 1
  /\ UNCHANGED <<appVars, agVars, snVars, exVars, webVars, tool, yt_arg, yt_phrase, yt_tries, yt_elapsed, yt_calls,
                 yt_succ, yt_doc, yt_content, yt_result>>

\* line 29: time.sleep(seconds) between two attempts
YtSleep ==
  /\ tool = "youtube" /\ yt_pc = "sleeping"
  /\ \E sec \in SleepChoices(yt_tries, yt_elapsed) : yt_now' = yt_now + sec
  /\ yt_pc' = "loop"
  /\ UNCHANGED <<appVars, agVars, snVars, exVars, webVars, tool, yt_arg, yt_phrase, yt_tries, yt_elapsed, yt_calls,
                 yt_active, yt_succ, yt_lastExc, yt_doc, yt_content, yt_result,
                 yt_raised>>

NextYoutube ==
  \/ YtNormalize
  \/ YtAttempt
  \/ YtLoaded
  \/ YtFailed
  \/ YtSleep

SpecYoutube == InitYoutube /\ [][NextYoutube]_vars

(***************************************************************************)
(* Claims about load_youtube (checked under SpecYoutube).                  *)
(***************************************************************************)
\* the attempt budget or the time budget is used up
BudgetExhausted == yt_tries >= MaxTries \/ yt_elapsed >= MaxTime

\* C7: attempts never overlap; a failed attempt is followed by a retry while
\* budget remains; after the first success no attempt is made; the sequence
\* ends at the first success or when the attempt or time budget is used up and
\* is never stuck before; an exception reaches the caller only when the budget
\* is exhausted, and it is the exception of the last attempt.
C7_RetryStateMachine ==
  /\ yt_active \in {0, 1} /\ (yt_active = 1 <=> yt_pc = "calling")
  /\ yt_calls = yt_tries /\ yt_tries <= MaxTries
  /\ yt_succ <= 1
  /\ yt_succ = 1 => yt_pc = "done" /\ yt_raised = NoExc
  /\ yt_pc = "sleeping" => ~BudgetExhausted /\ yt_lastExc.attempt = yt_tries
  /\ yt_raised # NoExc =>
       /\ yt_pc = "done" /\ yt_succ = 0
       /\ BudgetExhausted
       /\ yt_raised = yt_lastExc /\ yt_raised.attempt = yt_tries
  /\ yt_pc = "done" => (yt_succ = 1 \/ yt_raised # NoExc) /\ ~ENABLED NextYoutube
  /\ yt_pc # "done" => ENABLED NextYoutube

\* every attempt of the budget failed, the last one on an empty document
C7_Witness ==
  /\ yt_pc = "done"
  /\ yt_tries = MaxTries /\ yt_elapsed < MaxTime
  /\ yt_raised = [kind |-> "Empty document", attempt |-> MaxTries]

\* C8: one call invokes the transcript loader at most 3 times; when every
\* attempt fails the exception propagates after the third.
C8_AtMostThreeAttempts ==
  /\ yt_calls <= DocMaxTries
  /\ (yt_raised # NoExc /\ yt_elapsed < MaxTime => yt_tries = DocMaxTries)

\* the phrase without its periods and question marks
C9_Needle == SelectSeq(yt_arg, LAMBDA c : c \notin {".", "?"})

\* the offsets at which the needle occurs in t, up to case
C9_Offsets(t) ==
  {off \in 0..(Len(t) - Len(C9_Needle)) :
     \A j \in 1..Len(C9_Needle) : SameLetter(t[off + j], C9_Needle[j])}

\* t from offset off to its end
SuffixFrom(t, off) == SubSeq(t, off + 1, Len(t))

\* C9 as claimed: the result is the suffix of the transcript t from the first
\* occurrence of the normalised phrase, or t unmodified when there is none.
C9_SuffixOfTranscript ==
  (yt_pc = "done" /\ yt_succ = 1) =>
    yt_result = IF C9_Offsets(yt_doc) # {}
                  THEN SuffixFrom(yt_doc, Min(C9_Offsets(yt_doc)))
                  ELSE yt_doc

\* C9 as amended: the same of the lowercased transcript.
C9_SuffixOfLoweredTranscript ==
  (yt_pc = "done" /\ yt_succ = 1) =>
    yt_result = IF C9_Offsets(yt_doc) # {}
                  THEN SuffixFrom(Lower(yt_doc), Min(C9_Offsets(yt_doc)))
                  ELSE Lower(yt_doc)

\* a phrase with punctuation that occurs twice, not at the start, in a
\* transcript with capitals
C9_Witness ==
  /\ yt_pc = "done" /\ yt_succ = 1
  /\ yt_arg # C9_Needle
  /\ Cardinality(C9_Offsets(yt_doc)) >= 2
  /\ Min(C9_Offsets(yt_doc)) > 0
  /\ yt_doc # Lower(yt_doc)

(***************************************************************************)
(* is_text_file                                                            *)
(***************************************************************************)
\* line 98: file.read(1024)
ReadSize == 1024

\* the files tried: absent, unreadable, failing while read, or readable with
\* their content around the 1024th byte
AsciiByte == 65
SnBytes == {AsciiByte, 128, 160, 194, 224, 237, 240, 255}
SnExtraTails == { <<226, 130, 172>>, <<240, 144, 128, 128>>, <<237, 160, 128>>,
                  <<224, 128, 128>>, <<244, 144, 128, 128>>, <<192, 128>>,
                  <<244, 143, 191, 191, 65>> }
SnPads == {0, ReadSize - 4, ReadSize - 2, ReadSize - 1, ReadSize, ReadSize + 1}
SnFiles ==
  {[status |-> st, pad |-> 0, tail |-> <<>>] : st \in {"missing", "denied", "ioerror"}}
    \cup {[status |-> "ok", pad |-> n, tail |-> t] :
            n \in SnPads, t \in StringsUpTo(SnBytes, MaxTail) \cup SnExtraTails}

\* file.read() without a size: the whole file
ReadAll(f, n) == [pad |-> f.pad, tail |-> f.tail]

\* file.read(n): the first n bytes, or all of them when there are fewer
ReadChunk(f, n) ==
  IF f.pad >= n THEN [pad |-> n, tail |-> <<>>]
  ELSE [pad |-> f.pad,
        tail |-> SubSeq(f.tail, 1, IF Len(f.tail) < n - f.pad
                                     THEN Len(f.tail) ELSE n - f.pad)]

IsContinuation(b) == b >= 128 /\ b <= 191

\* the number of bytes of the character that starts with lead byte b (0: none)
\* and the values its second byte may take
Utf8Length(b) ==
  IF b < 128 THEN 1
  ELSE IF b >= 194 /\ b <= 223 THEN 2
  ELSE IF b >= 224 /\ b <= 239 THEN 3
  ELSE IF b >= 240 /\ b <= 244 THEN 4
  ELSE 0

SecondByteOk(lead, b) ==
  IF lead = 224 THEN b >= 160 /\ b <= 191
  ELSE IF lead = 237 THEN b >= 128 /\ b <= 159
  ELSE IF lead = 240 THEN b >= 144 /\ b <= 191
  ELSE IF lead = 244 THEN b >= 128 /\ b <= 143
  ELSE IsContinuation(b)

\* bytes.decode('utf-8') in strict mode, byte after byte: FALSE stands for
\* UnicodeDecodeError
RECURSIVE DecodeOk(_)
DecodeOk(bs) ==
  IF bs = <<>> THEN TRUE
  ELSE LET n == Utf8Length(Head(bs))
       IN /\ n > 0
          /\ Len(bs) >= n
          /\ (n >= 2 => SecondByteOk(Head(bs), bs[2]))
          /\ \A i \in 3..n : IsContinuation(bs[i])
          /\ DecodeOk(SubSeq(bs, n + 1, Len(bs)))

\* lines 95-106: [ret |-> the bool returned, raised |-> an exception escaped]
IsTextFile(f) ==
  IF f.status # "ok" THEN [ret |-> FALSE, raised |-> FALSE]
  ELSE [ret |-> DecodeOk(ReadChunk(f, ReadSize).tail), raised |-> FALSE]

InitSniff ==
  /\ tool = "sniff"
  /\ sn_file \in SnFiles
  /\ sn_pc = "start"
  /\ sn_result = "none"
  /\ sn_raised = FALSE
  /\ ExIdle
  /\ WebIdle
  /\ YtIdle
  /\ AgIdle
  /\ AppIdle

\* lines 95-106
SnClassify ==
  /\ tool = "sniff" /\ sn_pc = "start"
  /\ sn_result' = IsTextFile(sn_file).ret
  /\ sn_raised' = IsTextFile(sn_file).raised
  /\ sn_pc' = "done"
  /\ UNCHANGED <<appVars, agVars, exVars, webVars, ytVars, tool, sn_file>>

NextSniff == SnClassify

SpecSniff == InitSniff /\ [][NextSniff]_vars

(***************************************************************************)
(* Claims about is_text_file (checked under SpecSniff).                    *)
(***************************************************************************)
\* the first 1024 bytes of the file that follow its padding of "A"s
C10_Window ==
  IF sn_file.pad >= ReadSize THEN <<>>
  ELSE [i \in 1..Min({Len(sn_file.tail), ReadSize - sn_file.pad}) |-> sn_file.tail[i]]

\* the code point that bytes bs encode as one UTF-8 character, or -1
C10_CodePoint(bs) ==
  LET n == Len(bs)
      conts == \A i \in 2..n : bs[i] \div 64 = 2
      low(i) == bs[i] % 64
      v == IF n = 1 THEN bs[1]
           ELSE IF n = 2 THEN (bs[1] % 32) * 64 + low(2)
           ELSE IF n = 3 THEN ((bs[1] % 16) * 64 + low(2)) * 64 + low(3)
           ELSE (((bs[1] % 8) * 64 + low(2)) * 64 + low(3)) * 64 + low(4)
      leadOk == IF n = 1 THEN bs[1] < 128
                ELSE IF n = 2 THEN bs[1] \div 32 = 6
                ELSE IF n = 3 THEN bs[1] \div 16 = 14
                ELSE bs[1] \div 8 = 30
      shortest == IF n = 1 THEN TRUE
                  ELSE IF n = 2 THEN v >= 128
                  ELSE IF n = 3 THEN v >= 2048
                  ELSE v >= 65536
      scalar == v <= 1114111 /\ ~(v >= 55296 /\ v <= 57343)
  IN IF conts /\ leadOk /\ shortest /\ scalar THEN v ELSE 0 - 1

\* bs splits into pieces of 1 to 4 bytes that each encode a code point
C10_ValidUtf8(bs) ==
  \E cuts \in SUBSET (1..(Len(bs) - 1)) :
    LET ends == cuts \cup {Len(bs)}
        start(e) == IF \E c \in cuts : c < e
                      THEN (CHOOSE c \in cuts : c < e /\ \A d \in cuts : d < e => d <= c) + 1
                      ELSE 1
    IN bs = <<>> \/ \A e \in ends :
         /\ e - start(e) + 1 <= 4
         /\ C10_CodePoint(SubSeq(bs, start(e), e)) >= 0

\* C10: is_text_file never raises, and returns True iff the file can be read
\* and its first 1024 bytes (all of it when shorter) are valid UTF-8; a missing
\* file, a permission failure, any other I/O failure and a decode error give
\* False.
C10_TextIffPrefixDecodes ==
  sn_pc = "done" =>
    /\ ~sn_raised
    /\ sn_result \in BOOLEAN
    /\ sn_result <=> (sn_file.status = "ok" /\ C10_ValidUtf8(C10_Window))

\* a readable file whose first 1024 bytes are valid UTF-8 and whose next byte
\* is not
C10_Witness ==
  /\ sn_pc = "done" /\ sn_result = TRUE
  /\ sn_file.status = "ok"
  /\ sn_file.pad + Len(sn_file.tail) > ReadSize
  /\ ~C10_ValidUtf8(sn_file.tail)

(***************************************************************************)
(* agent.py: BasicAgent.__call__.  Here a string is a sequence of code     *)
(* points, so that literal text, paths and decoded file content are of one *)
(* kind.                                                                   *)
(***************************************************************************)
\* "\nAttached Python code file: "
PyFileHead == <<10, 65, 116, 116, 97, 99, 104, 101, 100, 32, 80, 121, 116, 104,
                111, 110, 32, 99, 111, 100, 101, 32, 102, 105, 108, 101, 58, 32>>

\* "\nAttached File Content:\n"
ContentHead == <<10, 65, 116, 116, 97, 99, 104, 101, 100, 32, 70, 105, 108, 101,
                 32, 67, 111, 110, 116, 101, 110, 116, 58, 10>>

\* "\nUse the 'transcribe_audio' tool to extract text from the mp3 file."
\* followed by "\nAttached mp3 file: "
Mp3Head == <<10, 85, 115, 101, 32, 116, 104, 101, 32, 39, 116, 114, 97, 110, 115,
             99, 114, 105, 98, 101, 95, 97, 117, 100, 105, 111, 39, 32, 116, 111,
             111, 108, 32, 116, 111, 32, 101, 120, 116, 114, 97, 99, 116, 32, 116,
             101, 120, 116, 32, 102, 114, 111, 109, 32, 116, 104, 101, 32, 109,
             112, 51, 32, 102, 105, 108, 101, 46>>
           \o <<10, 65, 116, 116, 97, 99, 104, 101, 100, 32, 109, 112, 51, 32, 102,
                105, 108, 101, 58, 32>>

\* "\nAttached File Path: "
PathHead == <<10, 65, 116, 116, 97, 99, 104, 101, 100, 32, 70, 105, 108, 101, 32,
              80, 97, 116, 104, 58, 32>>

DotPy == <<46, 112, 121>>
DotMp3 == <<46, 109, 112, 51>>
DotTxt == <<46, 116, 120, 116>>

\* the calls tried: no path (None), the empty path, and "a.py", "a.txt",
\* "a.mp3", "a.png", "a"; the questions "Why?" and ""
NoPath == [given |-> FALSE, s |-> <<>>]
AgNames == { <<97>> \o DotPy, <<97>> \o DotTxt, <<97>> \o DotMp3,
             <<97, 46, 112, 110, 103>>, <<97>> }
AgQuestions == { <<87, 104, 121, 63>>, <<>> }

\* the files tried at the path: absent, unreadable, or readable with LF, CR,
\* "A", a two-byte character and an undecodable byte around the 1024th byte
AgBytes == {10, 13, AsciiByte, 195, 169, 255}
AgPads == {0, ReadSize}
AgFiles ==
  {[status |-> st, pad |-> 0, tail |-> <<>>] : st \in {"missing", "denied"}}
    \cup {[status |-> "ok", pad |-> n, tail |-> t] :
            n \in AgPads, t \in StringsUpTo(AgBytes, MaxAttach)}

\* os.path.exists
Exists(f) == f.status # "missing"

\* PurePath.suffix: the final component from its last dot on, when that dot
\* is neither its first nor its last character
RECURSIVE LastPos(_, _)
LastPos(s, c) ==
  IF s = <<>> THEN 0
  ELSE IF s[Len(s)] = c THEN Len(s)
  ELSE LastPos(SubSeq(s, 1, Len(s) - 1), c)

Suffix(path) ==
  LET name == SubSeq(path, LastPos(path, 47) + 1, Len(path))
      i == LastPos(name, 46)
  IN IF 1 < i /\ i < Len(name) THEN SubSeq(name, i, Len(name)) ELSE <<>>

\* the code point that a well-formed sequence of 1 to 4 bytes encodes
CodePointOf(bs) ==
  IF Len(bs) = 1 THEN bs[1]
  ELSE IF Len(bs) = 2 THEN (bs[1] - 192) * 64 + (bs[2] - 128)
  ELSE IF Len(bs) = 3
    THEN (bs[1] - 224) * 4096 + (bs[2] - 128) * 64 + (bs[3] - 128)
  ELSE (bs[1] - 240) * 262144 + (bs[2] - 128) * 4096 + (bs[3] - 128) * 64
         + (bs[4] - 128)

\* decoding as UTF-8 with errors="ignore": a byte that starts no well-formed
\* character is dropped
RECURSIVE DecodeIgnore(_)
DecodeIgnore(bs) ==
  IF bs = <<>> THEN <<>>
  ELSE LET n == Utf8Length(Head(bs))
           ok == /\ n > 0
                 /\ Len(bs) >= n
                 /\ (n >= 2 => SecondByteOk(Head(bs), bs[2]))
                 /\ \A i \in 3..n : IsContinuation(bs[i])
       IN IF ok THEN <<CodePointOf(SubSeq(bs, 1, n))>>
                       \o DecodeIgnore(SubSeq(bs, n + 1, Len(bs)))
          ELSE DecodeIgnore(Tail(bs))

\* reading in text mode with the default newline=None: "\r\n" and "\r"
\* become "\n"
RECURSIVE UniversalNewlines(_)
UniversalNewlines(s) ==
  IF s = <<>> THEN <<>>
  ELSE IF Head(s) = 13
    THEN <<10>> \o UniversalNewlines(IF Len(s) >= 2 /\ s[2] = 10
                                      THEN SubSeq(s, 3, Len(s)) ELSE Tail(s))
  ELSE <<Head(s)>> \o UniversalNewlines(Tail(s))

\* lines 44-45: open(file_path, "r", encoding="utf-8", errors="ignore").read()
ReadText(f) ==
  [i \in 1..f.pad |-> AsciiByte] \o UniversalNewlines(DecodeIgnore(f.tail))

\* the extension is tested before the content is sniffed
PresentExtensionFirst(question, path, f, fault) ==
  IF ~path.given \/ path.s = <<>> \/ ~Exists(f)
    THEN [prompt |-> question, caught |-> FALSE]
  ELSE IF fault # "none" THEN [prompt |-> question, caught |-> TRUE]
  ELSE IF Suffix(path.s) = DotMp3
    THEN [prompt |-> question \o Mp3Head \o path.s, caught |-> FALSE]
  ELSE IF Suffix(path.s) = DotPy
    THEN [prompt |-> question \o PyFileHead \o path.s, caught |-> FALSE]
  ELSE IF IsTextFile(f).ret
    THEN [prompt |-> question \o ContentHead \o ReadText(f), caught |-> FALSE]
  ELSE [prompt |-> question \o PathHead \o path.s, caught |-> FALSE]

\* the heading is appended before the file is read
PresentHeadingFirst(question, path, f, fault) ==
  IF ~path.given \/ path.s = <<>> \/ ~Exists(f)
    THEN [prompt |-> question, caught |-> FALSE]
  ELSE IF fault = "classify" THEN [prompt |-> question, caught |-> TRUE]
  ELSE IF IsTextFile(f).ret
    THEN IF fault = "read"
           THEN [prompt |-> question \o ContentHead, caught |-> TRUE]
         ELSE IF Suffix(path.s) = DotPy
           THEN [prompt |-> question \o PyFileHead \o path.s, caught |-> FALSE]
         ELSE [prompt |-> question \o ContentHead \o ReadText(f), caught |-> FALSE]
  ELSE IF Suffix(path.s) = DotMp3
    THEN [prompt |-> question \o Mp3Head \o path.s, caught |-> FALSE]
  ELSE [prompt |-> question \o PathHead \o path.s, caught |-> FALSE]

\* lines 39-59: the prompt built from the question and the attachment.  fault
\* is what the environment does inside the try block: "none", "classify" (an
\* exception before the file is read) or "read" (open or read raises)
Present(question, path, f, fault) ==
  IF ~path.given \/ path.s = <<>> \/ ~Exists(f)
    THEN [prompt |-> question, caught |-> FALSE]
  ELSE IF fault = "classify" THEN [prompt |-> question, caught |-> TRUE]
  ELSE IF IsTextFile(f).ret
    THEN IF fault = "read" THEN [prompt |-> question, caught |-> TRUE]
         ELSE IF Suffix(path.s) = DotPy
           THEN [prompt |-> question \o PyFileHead \o path.s, caught |-> FALSE]
         ELSE [prompt |-> question \o ContentHead \o ReadText(f), caught |-> FALSE]
  ELSE IF Suffix(path.s) = DotMp3
    THEN [prompt |-> question \o Mp3Head \o path.s, caught |-> FALSE]
  ELSE [prompt |-> question \o PathHead \o path.s, caught |-> FALSE]

InitAgent ==
  /\ tool = "agent"
  /\ ag_question \in AgQuestions
  /\ \/ /\ ag_path \in {NoPath, [given |-> TRUE, s |-> <<>>]}
        /\ ag_file = [status |-> "missing", pad |-> 0, tail |-> <<>>]
     \/ /\ ag_path \in {[given |-> TRUE, s |-> n] : n \in AgNames}
        /\ ag_file \in AgFiles
  /\ ag_pc = "start"
  /\ ag_prompt = <<>>
  /\ ag_caught = FALSE
  /\ ag_runs = 0
  /\ ag_given = <<>>
  /\ ag_raised = "none"
  /\ ExIdle
  /\ WebIdle
  /\ YtIdle
  /\ SnIdle
  /\ AppIdle

\* lines 39-60: the prompt is built; no fault can happen outside the try
\* block, and a read can fail only where the file is read
AgPresent ==
  /\ tool = "agent" /\ ag_pc = "start"
  /\ \E fault \in {"none", "classify", "read"} :
       /\ fault # "none" => ag_path.given /\ ag_path.s # <<>> /\ Exists(ag_file)
       /\ fault = "read" => IsTextFile(ag_file).ret
       /\ ag_prompt' = Present(ag_question, ag_path, ag_file, fault).prompt
       /\ ag_caught' = Present(ag_question, ag_path, ag_file, fault).caught
  /\ ag_pc' = "run"
  /\ UNCHANGED <<appVars, exVars, webVars, ytVars, snVars, tool, ag_question, ag_path,
                 ag_file, ag_runs, ag_given, ag_raised>>

\* lines 61-62: the reasoning loop runs on the prompt and returns an answer
AgRunReturns ==
  /\ tool = "agent" /\ ag_pc = "run"
  /\ ag_runs' = ag_runs + 1
  /\ ag_given' = ag_prompt
  /\ ag_pc' = "done"
  /\ UNCHANGED <<appVars, exVars, webVars, ytVars, snVars, tool, ag_question, ag_path,
                 ag_file, ag_prompt, ag_caught, ag_raised>>

\* line 61: the reasoning loop raises, and __call__ lets the exception through
AgRunRaises ==
  /\ tool = "agent" /\ ag_pc = "run"
  /\ ag_runs' = ag_runs + 1
  /\ ag_given' = ag_prompt
  /\ ag_raised' = "run"
  /\ ag_pc' = "done"
  /\ UNCHANGED <<appVars, exVars, webVars, ytVars, snVars, tool, ag_question, ag_path,
                 ag_file, ag_prompt, ag_caught>>

NextAgent ==
  \/ AgPresent
  \/ AgRunReturns
  \/ AgRunRaises

SpecAgent == InitAgent /\ [][NextAgent]_vars

(***************************************************************************)
(* Claims about BasicAgent.__call__ (checked under SpecAgent).             *)
(***************************************************************************)
\* the prompt has been built for an attachment that exists, and nothing was
\* raised while it was classified and read
AgAttached == ag_path.given /\ ag_path.s # <<>> /\ ag_file.status # "missing"

AgBuilt == ag_pc \in {"run", "done"} /\ AgAttached /\ ~ag_caught

AgSniffedText == IsTextFile(ag_file).ret

\* the four fragments, in the order of the policy
AgFragment(k) ==
  IF k = 1 THEN PyFileHead \o ag_path.s
  ELSE IF k = 2 THEN ContentHead \o ReadText(ag_file)
  ELSE IF k = 3 THEN Mp3Head \o ag_path.s
  ELSE PathHead \o ag_path.s

AgPolicy ==
  IF AgSniffedText THEN (IF EndsWith(ag_path.s, DotPy) THEN 1 ELSE 2)
  ELSE (IF EndsWith(ag_path.s, DotMp3) THEN 3 ELSE 4)

AgSelected ==
  /\ ag_prompt = ag_question \o AgFragment(AgPolicy)
  /\ Cardinality({k \in 1..4 : ag_prompt = ag_question \o AgFragment(k)}) = 1

\* C11 as stated: the fragment follows the sniffed kind and then the
\* extension, and in particular every .txt attachment is given inline and
\* every .mp3 attachment is given as the transcription instruction with its path.
C11_TxtInlineMp3Instruction ==
  AgBuilt =>
    /\ AgSelected
    /\ EndsWith(ag_path.s, DotTxt) => ag_prompt = ag_question \o AgFragment(2)
    /\ EndsWith(ag_path.s, DotMp3) => ag_prompt = ag_question \o AgFragment(3)

\* C11, amended: when classifying and reading raise nothing, the prompt is
\* the question followed by exactly one of the four fragments, chosen by the
\* sniffed kind first and the extension second; so a .txt attachment is given
\* inline when it sniffs as Text, and an .mp3 attachment is given as the
\* transcription instruction with its path, never its content, when it sniffs
\* as Binary.
C11_FragmentBySniffThenExtension ==
  AgBuilt =>
    /\ AgSelected
    /\ EndsWith(ag_path.s, DotTxt) /\ AgSniffedText
         => ag_prompt = ag_question \o AgFragment(2)
    /\ EndsWith(ag_path.s, DotMp3) /\ ~AgSniffedText
         => /\ ag_prompt = ag_question \o AgFragment(3)
            /\ ag_prompt # ag_question \o AgFragment(2)

\* an .mp3 attachment whose first 1024 bytes decode, with an undecodable byte
\* after them, has been given inline
C11_Witness ==
  /\ ag_pc = "done"
  /\ AgBuilt
  /\ EndsWith(ag_path.s, DotMp3)
  /\ ag_file.pad = ReadSize /\ ag_file.tail = <<255, 13>>
  /\ ag_prompt = ag_question \o ContentHead \o [i \in 1..ReadSize |-> AsciiByte]
                   \o <<10>>

\* C12: when an exception occurs while the attachment is classified or read,
\* or no path is given, or the path does not exist, the exception does not
\* leave __call__, the prompt is exactly the question, and the reasoning loop
\* is run, once, on that prompt.
C12_FallbackToQuestion ==
  (ag_pc \in {"run", "done"} /\ (ag_caught \/ ~AgAttached)) =>
    /\ ag_prompt = ag_question
    /\ ag_pc = "run" => ag_raised = "none" /\ ENABLED AgRunReturns
    /\ ag_pc = "done" => ag_runs = 1 /\ ag_given = ag_question

\* the read of a .txt attachment that sniffs as Text raised, and the loop ran
C12_Witness ==
  /\ ag_pc = "done"
  /\ ag_caught
  /\ AgAttached /\ AgSniffedText /\ EndsWith(ag_path.s, DotTxt)
  /\ ag_question # <<>>
  /\ ag_runs = 1 /\ ag_given = ag_question

(***************************************************************************)
(* The four tools together, for claims that compare them.                  *)
(***************************************************************************)
InitTools == InitExec \/ InitWeb \/ InitYoutube \/ InitSniff

NextTools == NextExec \/ NextWeb \/ NextYoutube \/ NextSniff

SpecTools == InitTools /\ [][NextTools]_vars

\* a Python str, as the tools' results are modelled
IsStr(s) == DOMAIN s = 1..Len(s) /\ \A i \in 1..Len(s) : s[i] \in STRING

\* the search result was not empty, and flattening, partitioning or filtering
\* it raised
WebProcessingRaised ==
  /\ web_raw.type # "none"
  /\ \/ web_raw.type = "dict"
     \/ web_k = 0 /\ web_content # <<>>
     \/ \E b \in 1..Len(web_batches), j \in 1..Len(web_words) :
          /\ web_words[j] = WebNonStr
          /\ \A i \in 1..(j - 1) :
               ~OccursIgnoringCase(web_words[i], web_batches[b])

\* C13: execute_python_file and optimized_web_search end with a string and no
\* exception reaches their caller; an exception of the subprocess launch, the
\* search, the flattening, the partitioning (a chunk size of 0 included) or the
\* filtering ends in a return of an error string; of the tools only
\* load_youtube lets an exception through, and only when its retries are
\* used up.
C13_OnlyExhaustedRetriesRaise ==
  /\ ~ex_raised /\ ~web_raised /\ ~sn_raised
  /\ ex_pc = "done" => ex_ret # "none" /\ IsStr(ex_result) /\ ex_result # <<>>
  /\ web_pc = "done" => web_ret # "none" /\ IsStr(web_result) /\ web_result # <<>>
  /\ ex_ret \in {"subprocess_error", "unexpected_error"}
       => StartsWith(ex_result, <<"E", "r", "r", "o", "r", ":", " ">>)
  /\ web_pc = "done" /\ WebProcessingRaised => web_ret = "error"
  /\ web_ret = "error" => StartsWith(web_result, WebErrorHead)
  /\ yt_raised # NoExc => yt_pc = "done" /\ yt_succ = 0 /\ BudgetExhausted

\* a chunk size of 0 on a search result that is not empty has ended in the
\* error string
C13_Witness ==
  /\ web_pc = "done"
  /\ web_k = 0 /\ web_raw.type = "str" /\ web_raw.s # <<>>
  /\ web_ret = "error"
  /\ web_result = WebErrorHead \o ExcStr("ValueError")

(***************************************************************************)
(* app.py: run_and_submit_all, from the fetch of the questions on, and     *)
(* utils.py: download_file.  Strings are sequences of one-character        *)
(* strings again.                                                          *)
(***************************************************************************)
\* "ERROR: "
ErrorAnswerHead == <<"E", "R", "R", "O", "R", ":", " ">>

\* the questions the server may return: task ids 1 and 2, with or without an
\* attached file, in lists of up to MaxQuestions (a task id may recur)
AppItems == {[task_id |-> t, file_name |-> f] : t \in 1..2, f \in BOOLEAN}
AppQuestionLists == StringsUpTo(AppItems, MaxQuestions)
AppAnswers == { <<"4", "2">> }

\* utils.py 48-59: cached says that the file is already in downloaded_files;
\* net is what the download does: "ok", "request_error" (a
\* RequestException, caught on line 57) or "os_error" (makedirs, open or
\* write raises, which nothing in download_file catches)
DownloadFile(cached, net) ==
  IF cached THEN [raised |-> FALSE, exc |-> "none", present |-> TRUE]
  ELSE IF net = "ok" THEN [raised |-> FALSE, exc |-> "none", present |-> TRUE]
  ELSE IF net = "request_error"
    THEN [raised |-> FALSE, exc |-> "none", present |-> FALSE]
  ELSE [raised |-> TRUE, exc |-> "OSError", present |-> FALSE]

\* lines 63-72 with the failed question added to the payload as well
ProcessQuestionSubmitsErrors(item, cached, net, agent, ans) ==
  LET d == IF item.file_name THEN DownloadFile(cached, net)
           ELSE [raised |-> FALSE, exc |-> "none", present |-> FALSE]
      exc == IF d.raised THEN d.exc ELSE "AgentError"
  IN IF ~d.raised /\ agent = "returned"
       THEN [call |-> "returned",
             payload |-> <<[task_id |-> item.task_id, submitted_answer |-> ans]>>,
             row |-> [task_id |-> item.task_id, answer |-> ans]]
       ELSE [call |-> IF d.raised THEN "not_called" ELSE "raised",
             payload |-> <<[task_id |-> item.task_id,
                            submitted_answer |-> ErrorAnswerHead \o ExcStr(exc)]>>,
             row |-> [task_id |-> item.task_id,
                      answer |-> ErrorAnswerHead \o ExcStr(exc)]]

\* lines 59-72, one pass of the loop: what the pass appends to answers_payload
\* and to results, and what became of the agent call.  agent is what
\* agent(text, path) does when it is reached: "returned" (with ans) or "raised"
ProcessQuestion(item, cached, net, agent, ans) ==
  LET d == IF item.file_name THEN DownloadFile(cached, net)
           ELSE [raised |-> FALSE, exc |-> "none", present |-> FALSE]
      exc == IF d.raised THEN d.exc ELSE "AgentError"
  IN IF ~d.raised /\ agent = "returned"
       THEN [call |-> "returned",
             payload |-> <<[task_id |-> item.task_id, submitted_answer |-> ans]>>,
             row |-> [task_id |-> item.task_id, answer |-> ans]]
       ELSE [call |-> IF d.raised THEN "not_called" ELSE "raised",
             payload |-> <<>>,
             row |-> [task_id |-> item.task_id,
                      answer |-> ErrorAnswerHead \o ExcStr(exc)]]

InitApp ==
  /\ tool = "app"
  /\ app_pc = "fetch"
  /\ app_questions = <<>>
  /\ app_i = 0
  /\ app_calls = <<>>
  /\ app_results = <<>>
  /\ app_payload = <<>>
  /\ app_posts = 0
  /\ app_status = "none"
  /\ ExIdle
  /\ WebIdle
  /\ YtIdle
  /\ SnIdle
  /\ AgIdle

\* lines 46-57: the questions are fetched, results and answers_payload are empty
AppFetch ==
  /\ tool = "app" /\ app_pc = "fetch"
  /\ app_questions' \in AppQuestionLists
  /\ app_pc' = "loop"
  /\ UNCHANGED <<exVars, webVars, ytVars, snVars, agVars, tool, app_i, app_calls,
                 app_results, app_payload, app_posts, app_status>>

\* lines 46-53: the fetch raises and the function returns
AppFetchFails ==
  /\ tool = "app" /\ app_pc = "fetch"
  /\ app_status' = "fetch_error"
  /\ app_pc' = "done"
  /\ UNCHANGED <<exVars, webVars, ytVars, snVars, agVars, tool, app_questions, app_i,
                 app_calls, app_results, app_payload, app_posts>>

\* lines 58-72: one pass of the loop, on the next question
AppProcess ==
  /\ tool = "app" /\ app_pc = "loop"
  /\ app_i < Len(app_questions)
  /\ \E cached \in BOOLEAN, net \in {"ok", "request_error", "os_error"},
        agent \in {"returned", "raised"}, ans \in AppAnswers :
       LET p == ProcessQuestion(app_questions[app_i + 1], cached, net, agent, ans)
       IN /\ app_calls' = Append(app_calls, p.call)
          /\ app_payload' = app_payload \o p.payload
          /\ app_results' = Append(app_results, p.row)
  /\ app_i' = app_i + 1
  /\ UNCHANGED <<exVars, webVars, ytVars, snVars, agVars, tool, app_questions, app_pc,
                 app_posts, app_status>>

\* lines 75-96: the loop is over; the payload is posted, and the function
\* returns whether the post succeeds or raises
AppSubmit ==
  /\ tool = "app" /\ app_pc = "loop"
  /\ app_i = Len(app_questions)
  /\ app_posts' = app_posts + 1
  /\ app_status' \in {"submitted", "submit_error"}
  /\ app_pc' = "done"
  /\ UNCHANGED <<exVars, webVars, ytVars, snVars, agVars, tool, app_questions, app_i,
                 app_calls, app_results, app_payload>>

NextApp ==
  \/ AppFetch
  \/ AppFetchFails
  \/ AppProcess
  \/ AppSubmit

SpecApp == InitApp /\ [][NextApp]_vars

(***************************************************************************)
(* Claims about run_and_submit_all (checked under SpecApp).                *)
(***************************************************************************)
\* the task ids, in order, of the first k questions whose agent call returned
RECURSIVE ReturnedIds(_)
ReturnedIds(k) ==
  IF k = 0 THEN <<>>
  ELSE ReturnedIds(k - 1)
         \o (IF app_calls[k] = "returned" THEN <<app_questions[k].task_id>>
             ELSE <<>>)

\* C14: once the questions are fetched, whatever each download and agent call
\* does: the questions are processed one at a time in fetched order; a failed
\* question is followed by the next one; the results table has one row per
\* processed question, and at the end one per question; the payload holds
\* exactly the task ids whose agent call returned, the others having a row
\* with an "ERROR: " answer only; the submission is posted exactly once, after
\* the last question.
C14_AllProcessedOneSubmission ==
  app_pc \in {"loop", "done"} /\ app_status # "fetch_error" =>
    /\ app_i <= Len(app_questions)
    /\ Len(app_results) = app_i /\ Len(app_calls) = app_i
    /\ \A k \in 1..app_i : app_results[k].task_id = app_questions[k].task_id
    /\ [k \in 1..Len(app_payload) |-> app_payload[k].task_id] = ReturnedIds(app_i)
    /\ \A k \in 1..app_i :
         app_calls[k] # "returned"
           => StartsWith(app_results[k].answer, <<"E", "R", "R", "O", "R", ":", " ">>)
    /\ \A k \in 1..app_i :
         app_calls[k] = "returned"
           => \E j \in 1..Len(app_payload) :
                /\ app_payload[j].task_id = app_results[k].task_id
                /\ app_payload[j].submitted_answer = app_results[k].answer
    /\ app_pc = "loop" /\ app_i < Len(app_questions) => ENABLED AppProcess /\ ~ENABLED AppSubmit
    /\ app_pc = "loop" => app_posts = 0
    /\ app_pc = "done" => app_posts = 1 /\ app_i = Len(app_questions)

\* two questions: the first failed (its download or its agent call raised),
\* the second was answered, and the submission was posted
C14_Witness ==
  /\ app_pc = "done"
  /\ Len(app_questions) = 2
  /\ app_calls[1] # "returned" /\ app_calls[2] = "returned"
  /\ Len(app_results) = 2
  /\ Len(app_payload) = 1 /\ app_payload[1].task_id = app_questions[2].task_id
  /\ app_posts = 1

\* the union of the specifications
Init == InitExec \/ InitWeb \/ InitYoutube \/ InitSniff \/ InitAgent \/ InitApp

Next == NextExec \/ NextWeb \/ NextYoutube \/ NextSniff \/ NextAgent \/ NextApp

Spec == Init /\ [][Next]_vars

====
